---------------------------- MODULE Spec2Model ----------------------------
(***************************************************************************)
(* A model of three files of the Postfix mail system: the attribute-list   *)
(* encoder util/attr_print.c (attr_print, attr_vprint, attr_print_str and  *)
(* attr_print_num), the string array util/argv.c and the fast flush        *)
(* client global/flush_clnt.c.  Each has a specification of its own        *)
(* (Spec, SpecPair and SpecTwo for the encoder, SpecArgv, SpecFlush), in   *)
(* which the variables of the other two do not change.                     *)
(*                                                                         *)
(* Bytes are the integers 0..255.  A C string argument is the sequence of  *)
(* bytes in the memory it points to; the code reads it up to the first     *)
(* NUL byte (strlen).  The encoder runs as a step machine, one action per  *)
(* statement that touches the stream, the argument list or a static        *)
(* buffer, so that a transport failure can fall between any two writes.    *)
(* The state of a thread is one record of the function th, so that more    *)
(* than one thread can run the encoder.                                    *)
(***************************************************************************)
EXTENDS Integers, Sequences, FiniteSets, TLC

(***************************************************************************)
(* Bounds of the model.                                                    *)
(***************************************************************************)
\* longest attribute list (entries before ATTR_TYPE_END) of the mixed lists
MaxArgs == 2
\* largest hash table (number of key/value pairs)
MaxTable == 2
\* longest byte string tried as the value of a single Str attribute
MaxStrLen == 3
\* most strings passed to one call of argv_add or argv_addn
MaxStrings == 3
\* the calls are made while the array holds no more strings than this
MaxArgc == 4
\* most requests one flush client makes
MaxRequests == 2

(***************************************************************************)
(* Program constants (attr.h).                                             *)
(***************************************************************************)
ATTR_TYPE_END == 0
ATTR_TYPE_NUM == 1
ATTR_TYPE_STR == 2
ATTR_TYPE_HASH == 3

ATTR_FLAG_NONE == 0
ATTR_FLAG_MISSING == 1
ATTR_FLAG_MORE == 4
ATTR_FLAG_ALL == 7

(***************************************************************************)
(* Bytes and C strings.                                                    *)
(***************************************************************************)
NUL == 0
NL == 10
COLON == 58
PAD == 61

Min(a, b) == IF a < b THEN a ELSE b

Take(s, n) == SubSeq(s, 1, Min(n, Len(s)))

Drop(s, n) == SubSeq(s, n + 1, Len(s))

\* strlen(3): the number of bytes before the first NUL byte
strlen(s) ==
    IF \E i \in 1..Len(s) : s[i] = NUL
    THEN (CHOOSE i \in 1..Len(s) :
              s[i] = NUL /\ \A j \in 1..(i - 1) : s[j] # NUL) - 1
    ELSE Len(s)

\* flags & mask, for the small bit masks of the flag set
RECURSIVE BitAnd(_, _)
BitAnd(a, b) ==
    IF a = 0 \/ b = 0 THEN 0
    ELSE (a % 2) * (b % 2) + 2 * BitAnd(a \div 2, b \div 2)

(***************************************************************************)
(* base64_encode / base64_decode (base64_code.c): the standard alphabet    *)
(* A-Z a-z 0-9 + / with = padding, three bytes to four characters.         *)
(***************************************************************************)
B64Char(i) ==
    IF i < 26 THEN 65 + i
    ELSE IF i < 52 THEN 97 + (i - 26)
    ELSE IF i < 62 THEN 48 + (i - 52)
    ELSE IF i = 62 THEN 43
    ELSE 47

RECURSIVE base64_encode(_)
base64_encode(s) ==
    IF Len(s) = 0 THEN << >>
    ELSE IF Len(s) = 1 THEN
        << B64Char(s[1] \div 4), B64Char((s[1] % 4) * 16), PAD, PAD >>
    ELSE IF Len(s) = 2 THEN
        << B64Char(s[1] \div 4),
           B64Char((s[1] % 4) * 16 + s[2] \div 16),
           B64Char((s[2] % 16) * 4), PAD >>
    ELSE
        << B64Char(s[1] \div 4),
           B64Char((s[1] % 4) * 16 + s[2] \div 16),
           B64Char((s[2] % 16) * 4 + s[3] \div 64),
           B64Char(s[3] % 64) >> \o base64_encode(Drop(s, 3))

\* the value of a base64 character, -1 for a byte outside the alphabet
B64Val(c) ==
    IF c >= 65 /\ c <= 90 THEN c - 65
    ELSE IF c >= 97 /\ c <= 122 THEN c - 97 + 26
    ELSE IF c >= 48 /\ c <= 57 THEN c - 48 + 52
    ELSE IF c = 43 THEN 62
    ELSE IF c = 47 THEN 63
    ELSE -1

\* the result of decoding a malformed token
MalformedToken == << -1 >>

RECURSIVE base64_decode(_)
base64_decode(tok) ==
    IF Len(tok) = 0 THEN << >>
    ELSE IF Len(tok) < 4 THEN MalformedToken
    ELSE
        LET a == B64Val(tok[1])
            b == B64Val(tok[2])
            c == B64Val(tok[3])
            d == B64Val(tok[4])
        IN  IF a < 0 \/ b < 0 THEN MalformedToken
            ELSE IF tok[3] = PAD THEN
                IF tok[4] = PAD /\ Len(tok) = 4
                THEN << a * 4 + b \div 16 >>
                ELSE MalformedToken
            ELSE IF c < 0 THEN MalformedToken
            ELSE IF tok[4] = PAD THEN
                IF Len(tok) = 4
                THEN << a * 4 + b \div 16, (b % 16) * 16 + c \div 4 >>
                ELSE MalformedToken
            ELSE IF d < 0 THEN MalformedToken
            ELSE
                LET rest == base64_decode(Drop(tok, 4))
                IN  IF rest = MalformedToken THEN MalformedToken
                    ELSE << a * 4 + b \div 16,
                            (b % 16) * 16 + c \div 4,
                            (c % 4) * 64 + d >> \o rest


(***************************************************************************)
(* The 32-bit int and unsigned types.  An unsigned value is held as two    *)
(* 16-bit limbs << hi, lo >>, value hi * 65536 + lo, so that the whole     *)
(* range 0 .. 2^32 - 1 is computed exactly.                                *)
(***************************************************************************)
INT_MAX == 2147483647

INT_MIN == (-2147483647) - 1

LIMB == 65536

\* the conversion of an int to unsigned (the value modulo 2^32)
ToUnsigned(n) ==
    IF n >= 0 THEN << n \div LIMB, n % LIMB >>
    ELSE LET m == (n + INT_MAX) + 1
         IN  << (m \div LIMB) + 32768, m % LIMB >>

\* u divided by ten: << quotient, remainder >>
DivMod10(u) ==
    LET x == (u[1] % 10) * LIMB + u[2]
    IN  << << u[1] \div 10, x \div 10 >>, x % 10 >>

\* the decimal digits printf's %u conversion writes for u
RECURSIVE FormatUnsigned(_)
FormatUnsigned(u) ==
    IF u[1] = 0 /\ u[2] < 10 THEN << 48 + u[2] >>
    ELSE LET qr == DivMod10(u)
         IN  FormatUnsigned(qr[1]) \o << 48 + qr[2] >>

(***************************************************************************)
(* The variadic argument list.  Every argument is one record, so that two  *)
(* lists can be compared: an int (a type tag or a number), a char pointer  *)
(* (the bytes of the memory it points to) or an HTABLE pointer (the list   *)
(* htable_list() returns for it, in the table's iteration order).          *)
(***************************************************************************)
IntArg(n) == [k |-> "int", i |-> n, s |-> << >>, h |-> << >>]

PtrArg(str) == [k |-> "ptr", i |-> 0, s |-> str, h |-> << >>]

TabArg(list) == [k |-> "tab", i |-> 0, s |-> << >>, h |-> list]

NumEntry(name, n) == << IntArg(ATTR_TYPE_NUM), PtrArg(name), IntArg(n) >>

StrEntry(name, val) == << IntArg(ATTR_TYPE_STR), PtrArg(name), PtrArg(val) >>

HashEntry(list) == << IntArg(ATTR_TYPE_HASH), TabArg(list) >>

\* an entry whose type tag is none of NUM, STR, HASH, END
BadEntry(tag) == << IntArg(tag), PtrArg(<< 120 >>) >>

EndArg == << IntArg(ATTR_TYPE_END) >>

RECURSIVE Flatten(_)
Flatten(ss) == IF ss = << >> THEN << >> ELSE Head(ss) \o Flatten(Tail(ss))

\* the argument list of a call that passes the entries es
ArgList(es) == Flatten(es) \o EndArg

(***************************************************************************)
(* The inputs tried.                                                       *)
(***************************************************************************)
\* sequences over S of length at most n
SeqsUpTo(S, n) == UNION { [1..m -> S] : m \in 0..n }

\* the hash table with pairs k1=v1 .. kn=vn, listed in ascending order
TableUp(n) == [i \in 1..n |-> [key |-> << 107, 48 + i >>,
                               value |-> << 118, 48 + i >>]]

\* the same table listed in descending order
TableDown(n) == [i \in 1..n |-> TableUp(n)[n + 1 - i]]

Tables == { TableUp(n) : n \in 0..MaxTable } \cup { TableDown(MaxTable) }

\* the entries of the mixed attribute lists
MixedEntries ==
    { NumEntry(<< 110 >>, 4711), StrEntry(<< COLON, NL >>, << NL, COLON >>) }
    \cup { HashEntry(list) : list \in Tables }
    \cup { BadEntry(9) }

MixedLists == SeqsUpTo(MixedEntries, MaxArgs)

\* flag words: NONE, MORE, MISSING|MORE, and two with an undefined bit
FlagWords ==
    { ATTR_FLAG_NONE, ATTR_FLAG_MORE, ATTR_FLAG_MISSING + ATTR_FLAG_MORE,
      ATTR_FLAG_ALL + 1, ATTR_FLAG_ALL + 1 + ATTR_FLAG_MORE }

\* byte strings passed as the value of a single Str attribute
ByteSample == { NUL, NL, COLON, 65, 255 }

StrValues == SeqsUpTo(ByteSample, MaxStrLen)

\* ints passed as the value of a single Num attribute
NumValues == { 0, 9, 10, 4711, 65535, 65536, INT_MAX, -1, -4711, INT_MIN }

ScalarLists ==
    { << StrEntry(<< 110 >>, v) >> : v \in StrValues }
    \cup { << NumEntry(<< 110 >>, n) >> : n \in NumValues }

\* one call of attr_print(): the stream, the flags and the argument list
Call(fp, flags, es) == [fp |-> fp, flags |-> flags, args |-> ArgList(es)]

\* a caller that makes one call on stream 1
SingleScripts ==
    { << Call(1, f, es) >> : f \in FlagWords, es \in MixedLists }
    \cup { << Call(1, ATTR_FLAG_NONE, es) >> : es \in ScalarLists }

(***************************************************************************)
(* State.                                                                  *)
(*   th          per thread: the position in attr_vprint (pc, a source     *)
(*               line), its arguments and locals, the calls still to make  *)
(*   out         per stream: the bytes the stream has accepted             *)
(*   att         per stream: the bytes the program has tried to write      *)
(*   ferr        per stream: the stream's error flag (vstream_ferror)      *)
(*   broken      per stream: the transport fails every write from now on   *)
(*   base64_buf  the static buffer of attr_print_str                       *)
(*   plain       the static buffer of attr_print_num                       *)
(*   calls       the calls that have returned, in order of return          *)
(*   argvp       the string array of argv.c: len, argc and the len + 1     *)
(*               slots of argv                                             *)
(*   ac          the call of argv.c in progress: its position (pc, a       *)
(*               source line), its arguments, the array as it was on entry *)
(*   fl          the call of flush_clnt.c in progress and what it has done *)
(*               to the flush server so far                                *)
(***************************************************************************)
VARIABLES th, out, att, ferr, broken, base64_buf, plain, calls, argvp, ac, fl

vars ==
    << th, out, att, ferr, broken, base64_buf, plain, calls, argvp, ac, fl >>

\* the state of argv.c and the state of flush_clnt.c
argv_state == << argvp, ac >>

flush_state == << fl >>

\* the state of attr_print.c
attr_state == << th, out, att, ferr, broken, base64_buf, plain, calls >>

Streams == { 1, 2 }

\* a thread that is to make the calls of script, before its first call
Thread(script) ==
    [pc |-> "idle", script |-> script, fp |-> 1, flags |-> 0,
     args |-> << >>, ap |-> << >>, attr_type |-> 0, attr_name |-> << >>,
     int_val |-> << 0, 0 >>, str_val |-> << >>, ht |-> << >>,
     str |-> [plain |-> FALSE, s |-> << >>], len |-> 0, num |-> << 0, 0 >>,
     ra |-> << >>, from |-> 0, afrom |-> 0]

\* no string array has been allocated and no call of argv.c is in progress
NoArgv == [len |-> 0, argc |-> 0, argv |-> << >>, overrun |-> FALSE]

NoArgvCall ==
    [pc |-> "none", fn |-> "", args |-> << >>, ap |-> << >>,
     arg |-> << >>, len |-> 0, old |-> NoArgv, asked |-> 0, returned |-> 0]

\* a process with the fast flush policy set, before its first request
FlushClient(policy) ==
    [pc |-> "idle", fn |-> "", var_fflush_policy |-> policy, req |-> << >>,
     open |-> FALSE, timeout |-> FALSE, scanned |-> 0, reply |-> 0,
     deferred |-> 0, status |-> 0, ret |-> 0, trace |-> << >>,
     results |-> << >>]

\* the streams, the static buffers and the log of attr_print.c at the start
InitStreams ==
    /\ out = [s \in Streams |-> << >>]
    /\ att = [s \in Streams |-> << >>]
    /\ ferr = [s \in Streams |-> FALSE]
    /\ broken = [s \in Streams |-> FALSE]
    /\ base64_buf = << >>
    /\ plain = << >>
    /\ calls = << >>

InitWith(scripts) ==
    /\ th \in { [t \in { 1 } |-> Thread(sc)] : sc \in scripts }
    /\ InitStreams
    /\ argvp = NoArgv
    /\ ac = NoArgvCall
    /\ fl = FlushClient("none")

Init == InitWith(SingleScripts)

\* msg_panic() has ended the process
Aborted == \E t \in DOMAIN th : th[t].pc = "panic"

(***************************************************************************)
(* The stream (vstream.c).  A write on a broken transport stores nothing   *)
(* and raises the stream's error flag; the flag is never cleared.          *)
(***************************************************************************)
vstream_write(fp, bytes) ==
    /\ att' = [att EXCEPT ![fp] = @ \o bytes]
    /\ IF bytes = << >>
       THEN out' = out /\ ferr' = ferr
       ELSE IF broken[fp]
       THEN out' = out /\ ferr' = [ferr EXCEPT ![fp] = TRUE]
       ELSE out' = [out EXCEPT ![fp] = @ \o bytes] /\ ferr' = ferr

VSTREAM_PUTC(ch, fp) == vstream_write(fp, << ch >>)

vstream_fputs(str, fp) == vstream_write(fp, Take(str, strlen(str)))

vstream_ferror(fp) == IF ferr[fp] THEN 1 ELSE 0

\* the transport of stream s fails while a call is writing to it
Break(s) ==
    /\ ~Aborted
    /\ ~broken[s]
    /\ \E t \in DOMAIN th : th[t].pc \notin { "idle", "panic" } /\ th[t].fp = s
    /\ broken' = [broken EXCEPT ![s] = TRUE]
    /\ UNCHANGED << th, out, att, ferr, base64_buf, plain, calls >>
    /\ UNCHANGED << argv_state, flush_state >>

(***************************************************************************)
(* attr_vprint, statement by statement.  A pc "Lnnn" is line nnn of        *)
(* attr_print.c.                                                           *)
(***************************************************************************)
Goto(t, r) == th' = [th EXCEPT ![t] = r]

Quiet == UNCHANGED << out, att, ferr >>

\* FlagsOutside with a mask that is one bit too wide (flags & ~0xf)
FlagsOutsideWide(flags) == flags - BitAnd(flags, 2 * ATTR_FLAG_ALL + 1)

\* flags & ~ATTR_FLAG_ALL, for a flag word that is not negative
FlagsOutside(flags) == flags - BitAnd(flags, ATTR_FLAG_ALL)

\* WantTerminator without the test of the MORE flag
WantTerminatorAlways(flags) == TRUE

\* (flags & ATTR_FLAG_MORE) == 0
WantTerminator(flags) == BitAnd(flags, ATTR_FLAG_MORE) = 0

\* WhileCond of a loop that gives up once the stream has an error
WhileCondUntilError(attr_type, fp) ==
    attr_type # ATTR_TYPE_END /\ ~ferr[fp]

\* the while condition of line 140
WhileCond(attr_type, fp) == attr_type # ATTR_TYPE_END

\* SwitchCase with a default case that breaks instead of calling msg_panic
SwitchCaseNoPanic(attr_type) ==
    IF attr_type = ATTR_TYPE_NUM THEN "L143"
    ELSE IF attr_type = ATTR_TYPE_STR THEN "L152"
    ELSE IF attr_type = ATTR_TYPE_HASH THEN "L161"
    ELSE "L177"

\* the switch of line 141: the line the case of attr_type starts at
SwitchCase(attr_type) ==
    IF attr_type = ATTR_TYPE_NUM THEN "L143"
    ELSE IF attr_type = ATTR_TYPE_STR THEN "L152"
    ELSE IF attr_type = ATTR_TYPE_HASH THEN "L161"
    ELSE "panic"

\* ArgLen that is one byte short
ArgLenShort(str) == IF strlen(str) > 0 THEN strlen(str) - 1 ELSE 0

\* the length attr_vprint passes with a name, a value, a key: strlen(str)
ArgLen(str) == strlen(str)

\* NumText with the conversion %d in place of %u
NumTextSigned(num) ==
    IF num[1] < 32768 THEN FormatUnsigned(num)
    ELSE LET neg == (LIMB - 1 - num[1]) * LIMB + (LIMB - 1 - num[2])
         IN  IF neg = INT_MAX
             THEN << 45 >> \o FormatUnsigned(<< 32768, 0 >>)
             ELSE << 45 >> \o FormatUnsigned(ToUnsigned(neg + 1))

\* vstring_sprintf(plain, "%u", num)
NumText(num) == FormatUnsigned(num)

\* the separator written between the name and the value of a line
Separator == COLON

\* the call attr_print_str(fp, str, len), to continue at line ret
CallStr(r, str, len, ret) ==
    [r EXCEPT !.str = str, !.len = len, !.ra = << ret >> \o @, !.pc = "L103"]

\* a pointer to argument memory holding the bytes s
Mem(s) == [plain |-> FALSE, s |-> s]

\* attr_print(fp, flags, ...): the caller's next call starts
attr_print(t) ==
    /\ ~Aborted
    /\ th[t].pc = "idle"
    /\ th[t].script # << >>
    /\ LET c == Head(th[t].script)
       IN  Goto(t, [Thread(Tail(th[t].script)) EXCEPT
                        !.pc = "L133", !.fp = c.fp, !.flags = c.flags,
                        !.args = c.args, !.ap = c.args,
                        !.from = Len(out[c.fp]), !.afrom = Len(att[c.fp])])
    /\ Quiet
    /\ UNCHANGED << argv_state, flush_state, broken, base64_buf, plain, calls >>

\* lines 133-134: the sanity check of the flags
sanity_check(t) ==
    /\ ~Aborted
    /\ th[t].pc = "L133"
    /\ Goto(t, [th[t] EXCEPT !.pc = IF FlagsOutside(th[t].flags) # 0
                                     THEN "panic" ELSE "L140"])
    /\ Quiet
    /\ UNCHANGED << argv_state, flush_state, broken, base64_buf, plain, calls >>

\* lines 140-141 and 174-175: read the next type tag and switch on it
next_attr(t) ==
    /\ ~Aborted
    /\ th[t].pc = "L140"
    /\ LET type == Head(th[t].ap).i
       IN  Goto(t, [th[t] EXCEPT
                        !.attr_type = type, !.ap = Tail(@),
                        !.pc = IF WhileCond(type, th[t].fp)
                               THEN SwitchCase(type) ELSE "L179"])
    /\ Quiet
    /\ UNCHANGED << argv_state, flush_state, broken, base64_buf, plain, calls >>

\* line 103: base64_encode(base64_buf, str, len)
attr_print_str_encode(t) ==
    /\ ~Aborted
    /\ th[t].pc = "L103"
    /\ LET mem == IF th[t].str.plain THEN plain ELSE th[t].str.s
       IN  base64_buf' = base64_encode(Take(mem, th[t].len))
    /\ Goto(t, [th[t] EXCEPT !.pc = "L104"])
    /\ Quiet
    /\ UNCHANGED << argv_state, flush_state, broken, plain, calls >>

\* line 104: vstream_fputs(STR(base64_buf), fp), and return
attr_print_str_fputs(t) ==
    /\ ~Aborted
    /\ th[t].pc = "L104"
    /\ vstream_fputs(base64_buf, th[t].fp)
    /\ Goto(t, [th[t] EXCEPT !.pc = Head(th[t].ra), !.ra = Tail(@)])
    /\ UNCHANGED << argv_state, flush_state, broken, base64_buf, plain, calls >>

\* line 114: vstring_sprintf(plain, "%u", num)
attr_print_num_sprintf(t) ==
    /\ ~Aborted
    /\ th[t].pc = "L114"
    /\ plain' = NumText(th[t].num)
    /\ Goto(t, [th[t] EXCEPT !.pc = "L115"])
    /\ Quiet
    /\ UNCHANGED << argv_state, flush_state, broken, base64_buf, calls >>

\* line 115: attr_print_str(fp, STR(plain), LEN(plain)), and return
attr_print_num_str(t) ==
    /\ ~Aborted
    /\ th[t].pc = "L115"
    /\ Goto(t, [th[t] EXCEPT !.str = [plain |-> TRUE, s |-> << >>],
                             !.len = Len(plain), !.pc = "L103"])
    /\ Quiet
    /\ UNCHANGED << argv_state, flush_state, broken, base64_buf, plain, calls >>

\* lines 143-144, case ATTR_TYPE_NUM: send the name
case_num_name(t) ==
    /\ ~Aborted
    /\ th[t].pc = "L143"
    /\ LET name == Head(th[t].ap).s
       IN  Goto(t, CallStr([th[t] EXCEPT !.attr_name = name, !.ap = Tail(@)],
                           Mem(name), ArgLen(name), "L145"))
    /\ Quiet
    /\ UNCHANGED << argv_state, flush_state, broken, base64_buf, plain, calls >>

\* lines 145-146: int_val = va_arg(ap, int); VSTREAM_PUTC(':', fp)
case_num_val(t) ==
    /\ ~Aborted
    /\ th[t].pc = "L145"
    /\ VSTREAM_PUTC(Separator, th[t].fp)
    /\ Goto(t, [th[t] EXCEPT !.int_val = ToUnsigned(Head(th[t].ap).i),
                             !.ap = Tail(@), !.pc = "L147"])
    /\ UNCHANGED << argv_state, flush_state, broken, base64_buf, plain, calls >>

\* line 147: attr_print_num(fp, (unsigned) int_val)
case_num_print(t) ==
    /\ ~Aborted
    /\ th[t].pc = "L147"
    /\ Goto(t, [th[t] EXCEPT !.num = th[t].int_val,
                             !.ra = << "L177" >> \o @, !.pc = "L114"])
    /\ Quiet
    /\ UNCHANGED << argv_state, flush_state, broken, base64_buf, plain, calls >>

\* lines 152-153, case ATTR_TYPE_STR: send the name
case_str_name(t) ==
    /\ ~Aborted
    /\ th[t].pc = "L152"
    /\ LET name == Head(th[t].ap).s
       IN  Goto(t, CallStr([th[t] EXCEPT !.attr_name = name, !.ap = Tail(@)],
                           Mem(name), ArgLen(name), "L154"))
    /\ Quiet
    /\ UNCHANGED << argv_state, flush_state, broken, base64_buf, plain, calls >>

\* lines 154-155: str_val = va_arg(ap, char *); VSTREAM_PUTC(':', fp)
case_str_val(t) ==
    /\ ~Aborted
    /\ th[t].pc = "L154"
    /\ VSTREAM_PUTC(Separator, th[t].fp)
    /\ Goto(t, [th[t] EXCEPT !.str_val = Head(th[t].ap).s,
                             !.ap = Tail(@), !.pc = "L156"])
    /\ UNCHANGED << argv_state, flush_state, broken, base64_buf, plain, calls >>

\* line 156: attr_print_str(fp, str_val, strlen(str_val))
case_str_print(t) ==
    /\ ~Aborted
    /\ th[t].pc = "L156"
    /\ Goto(t, CallStr(th[t], Mem(th[t].str_val), ArgLen(th[t].str_val),
                       "L177"))
    /\ Quiet
    /\ UNCHANGED << argv_state, flush_state, broken, base64_buf, plain, calls >>

\* line 161, case ATTR_TYPE_HASH: ht_info_list = htable_list(...)
case_hash_list(t) ==
    /\ ~Aborted
    /\ th[t].pc = "L161"
    /\ Goto(t, [th[t] EXCEPT !.ht = Head(th[t].ap).h, !.ap = Tail(@),
                             !.pc = "L162"])
    /\ Quiet
    /\ UNCHANGED << argv_state, flush_state, broken, base64_buf, plain, calls >>

\* lines 162-163: the loop test *ht, and the key of the pair sent
hash_loop(t) ==
    /\ ~Aborted
    /\ th[t].pc = "L162"
    /\ IF th[t].ht = << >>
       THEN Goto(t, [th[t] EXCEPT !.pc = "L177"])
       ELSE Goto(t, CallStr(th[t], Mem(th[t].ht[1].key),
                            ArgLen(th[t].ht[1].key), "L164"))
    /\ Quiet
    /\ UNCHANGED << argv_state, flush_state, broken, base64_buf, plain, calls >>

\* line 164: VSTREAM_PUTC(':', fp)
hash_sep(t) ==
    /\ ~Aborted
    /\ th[t].pc = "L164"
    /\ VSTREAM_PUTC(Separator, th[t].fp)
    /\ Goto(t, [th[t] EXCEPT !.pc = "L165"])
    /\ UNCHANGED << argv_state, flush_state, broken, base64_buf, plain, calls >>

\* line 165: attr_print_str(fp, ht[0]->value, strlen(ht[0]->value))
hash_value(t) ==
    /\ ~Aborted
    /\ th[t].pc = "L165"
    /\ Goto(t, CallStr(th[t], Mem(th[t].ht[1].value),
                       ArgLen(th[t].ht[1].value), "L169"))
    /\ Quiet
    /\ UNCHANGED << argv_state, flush_state, broken, base64_buf, plain, calls >>

\* lines 169-170 and the ht++ of line 162: a line end between two pairs
hash_next(t) ==
    /\ ~Aborted
    /\ th[t].pc = "L169"
    /\ IF Len(th[t].ht) > 1
       THEN VSTREAM_PUTC(NL, th[t].fp)
       ELSE Quiet
    /\ Goto(t, [th[t] EXCEPT !.ht = Tail(@), !.pc = "L162"])
    /\ UNCHANGED << argv_state, flush_state, broken, base64_buf, plain, calls >>

\* end_of_case without the line end
end_of_case_no_newline(t) ==
    /\ ~Aborted
    /\ th[t].pc = "L177"
    /\ Goto(t, [th[t] EXCEPT !.pc = "L140"])
    /\ Quiet
    /\ UNCHANGED << argv_state, flush_state, broken, base64_buf, plain, calls >>

\* line 177: VSTREAM_PUTC('\n', fp), the line end after every switch case
end_of_case(t) ==
    /\ ~Aborted
    /\ th[t].pc = "L177"
    /\ VSTREAM_PUTC(NL, th[t].fp)
    /\ Goto(t, [th[t] EXCEPT !.pc = "L140"])
    /\ UNCHANGED << argv_state, flush_state, broken, base64_buf, plain, calls >>

\* lines 179-180: the terminator, unless ATTR_FLAG_MORE is set
terminator(t) ==
    /\ ~Aborted
    /\ th[t].pc = "L179"
    /\ IF WantTerminator(th[t].flags)
       THEN VSTREAM_PUTC(NL, th[t].fp)
       ELSE Quiet
    /\ Goto(t, [th[t] EXCEPT !.pc = "L181"])
    /\ UNCHANGED << argv_state, flush_state, broken, base64_buf, plain, calls >>

\* line 181: return (vstream_ferror(fp))
attr_vprint_return(t) ==
    /\ ~Aborted
    /\ th[t].pc = "L181"
    /\ calls' = Append(calls,
                       [fp |-> th[t].fp, flags |-> th[t].flags,
                        args |-> th[t].args,
                        from |-> th[t].from, upto |-> Len(out[th[t].fp]),
                        afrom |-> th[t].afrom, aupto |-> Len(att[th[t].fp]),
                        ret |-> vstream_ferror(th[t].fp)])
    /\ Goto(t, [th[t] EXCEPT !.pc = "idle"])
    /\ Quiet
    /\ UNCHANGED << argv_state, flush_state, broken, base64_buf, plain >>

\* one step of some thread inside attr_print()
attr_vprint ==
    \/ \E t \in DOMAIN th : attr_print(t)
    \/ \E t \in DOMAIN th : sanity_check(t)
    \/ \E t \in DOMAIN th : next_attr(t)
    \/ \E t \in DOMAIN th : attr_print_str_encode(t)
    \/ \E t \in DOMAIN th : attr_print_str_fputs(t)
    \/ \E t \in DOMAIN th : attr_print_num_sprintf(t)
    \/ \E t \in DOMAIN th : attr_print_num_str(t)
    \/ \E t \in DOMAIN th : case_num_name(t)
    \/ \E t \in DOMAIN th : case_num_val(t)
    \/ \E t \in DOMAIN th : case_num_print(t)
    \/ \E t \in DOMAIN th : case_str_name(t)
    \/ \E t \in DOMAIN th : case_str_val(t)
    \/ \E t \in DOMAIN th : case_str_print(t)
    \/ \E t \in DOMAIN th : case_hash_list(t)
    \/ \E t \in DOMAIN th : hash_loop(t)
    \/ \E t \in DOMAIN th : hash_sep(t)
    \/ \E t \in DOMAIN th : hash_value(t)
    \/ \E t \in DOMAIN th : hash_next(t)
    \/ \E t \in DOMAIN th : end_of_case(t)
    \/ \E t \in DOMAIN th : terminator(t)
    \/ \E t \in DOMAIN th : attr_vprint_return(t)

Next ==
    \/ attr_vprint
    \/ \E s \in Streams : Break(s)

Spec == Init /\ [][Next]_vars

(***************************************************************************)
(* A second caller, for the claims that compare the bytes of two ways to   *)
(* send the same attributes: it sends them one way on stream 1 and the     *)
(* other way on stream 2, over transports that do not fail.                *)
(***************************************************************************)
\* the argument list with every table replaced by one Str entry per pair
RECURSIVE ExpandTables(_)
ExpandTables(ap) ==
    IF ap = << >> THEN ap
    ELSE IF Head(ap).i \in { ATTR_TYPE_NUM, ATTR_TYPE_STR }
    THEN Take(ap, 3) \o ExpandTables(Drop(ap, 3))
    ELSE IF Head(ap).i = ATTR_TYPE_HASH
    THEN Flatten([i \in 1..Len(ap[2].h) |->
                      StrEntry(ap[2].h[i].key, ap[2].h[i].value)])
         \o ExpandTables(Drop(ap, 2))
    ELSE ap

\* the list A as sent with MORE, the list B after it, and A followed by B
MoreScripts ==
    UNION { { << Call(1, ATTR_FLAG_MORE, Take(es, k)),
                 Call(1, ATTR_FLAG_NONE, Drop(es, k)),
                 Call(2, ATTR_FLAG_NONE, es) >> : k \in 0..Len(es) }
            : es \in MixedLists }

\* a list with its tables, and the same list with its tables expanded
TableScripts ==
    { << Call(1, f, es),
         [fp |-> 2, flags |-> f, args |-> ExpandTables(ArgList(es))] >> :
      f \in { ATTR_FLAG_NONE, ATTR_FLAG_MORE },
      es \in { l \in MixedLists : ExpandTables(ArgList(l)) # ArgList(l) } }

InitPair == InitWith(MoreScripts \cup TableScripts)

NextPair == attr_vprint

SpecPair == InitPair /\ [][NextPair]_vars

(***************************************************************************)
(* Two threads, each making one call on a stream of its own, their steps   *)
(* interleaved in any order.  The static buffers base64_buf and plain are  *)
(* one object each for the whole process, so both threads use the same     *)
(* two.  The transports do not fail.                                       *)
(***************************************************************************)
\* the lists the first thread sends on stream 1
FirstLists ==
    { << NumEntry(<< 110 >>, 4711) >>, << StrEntry(<< 115 >>, << 97, 98 >>) >>,
      << HashEntry(TableUp(1)) >> }

\* the lists the second thread sends on stream 2
SecondLists ==
    { << NumEntry(<< 109 >>, 9) >>,
      << StrEntry(<< 116 >>, << 120, 121, 122 >>) >>,
      << HashEntry(TableDown(2)) >> }

InitTwo ==
    /\ th \in { [t \in { 1, 2 } |->
                     IF t = 1 THEN Thread(<< Call(1, ATTR_FLAG_NONE, a) >>)
                     ELSE Thread(<< Call(2, ATTR_FLAG_NONE, b) >>)] :
                 a \in FirstLists, b \in SecondLists }
    /\ InitStreams
    /\ argvp = NoArgv
    /\ ac = NoArgvCall
    /\ fl = FlushClient("none")

NextTwo == attr_vprint

SpecTwo == InitTwo /\ [][NextTwo]_vars

(***************************************************************************)
(* The string array of util/argv.c.  A slot of argv holds the pointer      *)
(* stored there: a copy of a string, the null pointer, or whatever the     *)
(* allocator left in it (a slot that was never written).  A write to a     *)
(* slot outside the len + 1 allocated ones is recorded as an overrun.      *)
(* argv_add and argv_addn run one statement of their loop per step.        *)
(***************************************************************************)
NullPtr == [k |-> "null", s |-> << >>]

Uninit == [k |-> "uninit", s |-> << >>]

StrPtr(s) == [k |-> "str", s |-> s]

\* the (char *) 0 that ends the argument list of argv_add and argv_addn
NullArg == [k |-> "null", i |-> 0, s |-> << >>, h |-> << >>]

\* mymalloc(n * sizeof(char *)): n slots, none of them written
mymalloc(n) == [i \in 1..n |-> Uninit]

\* myrealloc(argv, n * sizeof(char *)): the old slots, then unwritten ones
myrealloc(argv, n) ==
    [i \in 1..n |-> IF i <= Len(argv) THEN argv[i] ELSE Uninit]

\* mystrdup(str): a copy of the string up to its first NUL byte
mystrdup(str) == StrPtr(Take(str, strlen(str)))

\* mystrndup(str, len): a copy of at most len bytes of the string
mystrndup(str, len) == StrPtr(Take(str, Min(len, strlen(str))))

\* line 103: (len < 2 ? 2 : len)
AllocLen(len) == IF len < 2 THEN 2 ELSE len

\* ExtendLen that grows the array by one slot
ExtendLenByOne(len) == len + 1

\* line 114: argvp->len *= 2
ExtendLen(len) == len * 2

\* ARGV_SPACE_LEFT that counts the slot of the terminator as free
SpaceLeftNoTerminator(a) == a.len - a.argc

\* line 130: #define ARGV_SPACE_LEFT(a) ((a)->len - (a)->argc - 1)
ARGV_SPACE_LEFT(a) == a.len - a.argc - 1

\* argvp->argv[i] = p
SetSlot(a, i, p) ==
    IF i < Len(a.argv) THEN [a EXCEPT !.argv[i + 1] = p]
    ELSE [a EXCEPT !.overrun = TRUE]

\* lines 136 and 159: argvp->argv[argvp->argc++] = p
AppendSlot(a, p) == [SetSlot(a, a.argc, p) EXCEPT !.argc = @ + 1]

\* argv_extend that allocates the larger array afresh
argv_extend_fresh(a) ==
    [a EXCEPT !.len = ExtendLen(a.len),
              !.argv = mymalloc(ExtendLen(a.len) + 1)]

\* lines 112-118: argv_extend
argv_extend(a) ==
    [a EXCEPT !.len = ExtendLen(a.len),
              !.argv = myrealloc(a.argv, ExtendLen(a.len) + 1)]

\* the lengths asked of argv_alloc
AllocLens == { -1, 0, 1, 2, 3 }

\* the strings passed to argv_add
ArgvStrings == { << 97, 98 >>, << 99 >> }

\* the (string, length) pairs passed to argv_addn
AddnPairs ==
    { << PtrArg(<< 97, 98 >>), IntArg(1) >>, << PtrArg(<< 99 >>), IntArg(2) >>,
      << PtrArg(<< 97, 98 >>), IntArg(-1) >> }

AddLists ==
    { [i \in DOMAIN strs |-> PtrArg(strs[i])] \o << NullArg >> :
      strs \in SeqsUpTo(ArgvStrings, MaxStrings) }

AddnLists ==
    { Flatten(pairs) \o << NullArg >> :
      pairs \in SeqsUpTo(AddnPairs, MaxStrings) }

\* the number of strings an argument list passes
Strings(args) == Cardinality({ i \in DOMAIN args : args[i].k = "ptr" })

\* a caller enters fn with the argument list args
EnterArgv(fn, args, pc) ==
    ac' = [ac EXCEPT !.pc = pc, !.fn = fn, !.args = args, !.ap = args,
                     !.old = argvp]

\* lines 95-108: argv_alloc(len)
argv_alloc ==
    /\ ac.pc = "none"
    /\ \E len \in AllocLens :
           /\ argvp' = SetSlot([len |-> AllocLen(len), argc |-> 0,
                                argv |-> mymalloc(AllocLen(len) + 1),
                                overrun |-> FALSE], 0, NullPtr)
           /\ ac' = [ac EXCEPT !.pc = "idle", !.fn = "argv_alloc",
                               !.asked = len]
    /\ UNCHANGED << attr_state, flush_state >>

\* line 122: a caller calls argv_add(argvp, s1, ..., (char *) 0)
argv_add ==
    /\ ac.pc = "idle"
    /\ \E args \in AddLists :
           /\ argvp.argc + Strings(args) <= MaxArgc
           /\ EnterArgv("argv_add", args, "L133")
    /\ UNCHANGED << argvp, attr_state, flush_state >>

\* line 133: while ((arg = va_arg(ap, char *)) != 0)
argv_add_while ==
    /\ ac.pc = "L133"
    /\ ac' = [ac EXCEPT !.arg = Head(ac.ap).s, !.ap = Tail(@),
                        !.pc = IF Head(ac.ap).k = "null"
                               THEN "L139" ELSE "L134"]
    /\ UNCHANGED << argvp, attr_state, flush_state >>

\* lines 134-135: if (ARGV_SPACE_LEFT(argvp) <= 0) argv_extend(argvp)
argv_add_space ==
    /\ ac.pc = "L134"
    /\ argvp' = IF ARGV_SPACE_LEFT(argvp) <= 0
                THEN argv_extend(argvp) ELSE argvp
    /\ ac' = [ac EXCEPT !.pc = "L136"]
    /\ UNCHANGED << attr_state, flush_state >>

\* line 136: argvp->argv[argvp->argc++] = mystrdup(arg)
argv_add_store ==
    /\ ac.pc = "L136"
    /\ argvp' = AppendSlot(argvp, mystrdup(ac.arg))
    /\ ac' = [ac EXCEPT !.pc = "L133"]
    /\ UNCHANGED << attr_state, flush_state >>

\* argv_add_return without the terminator
argv_add_return_no_null ==
    /\ ac.pc = "L139"
    /\ ac' = [ac EXCEPT !.pc = "idle"]
    /\ UNCHANGED << argvp, attr_state, flush_state >>

\* line 139: argvp->argv[argvp->argc] = 0, and return
argv_add_return ==
    /\ ac.pc = "L139"
    /\ argvp' = SetSlot(argvp, argvp.argc, NullPtr)
    /\ ac' = [ac EXCEPT !.pc = "idle"]
    /\ UNCHANGED << attr_state, flush_state >>

\* a length test that lets every length pass
BadLengthNever(len) == FALSE

\* line 155: (len = va_arg(ap, int)) < 0
BadLength(len) == len < 0

\* line 144: a caller calls argv_addn(argvp, s1, len1, ..., (char *) 0)
argv_addn ==
    /\ ac.pc = "idle"
    /\ \E args \in AddnLists :
           /\ argvp.argc + Strings(args) <= MaxArgc
           /\ EnterArgv("argv_addn", args, "L154")
    /\ UNCHANGED << argvp, attr_state, flush_state >>

\* line 154: while ((arg = va_arg(ap, char *)) != 0)
argv_addn_while ==
    /\ ac.pc = "L154"
    /\ ac' = [ac EXCEPT !.arg = Head(ac.ap).s, !.ap = Tail(@),
                        !.pc = IF Head(ac.ap).k = "null"
                               THEN "L162" ELSE "L155"]
    /\ UNCHANGED << argvp, attr_state, flush_state >>

\* lines 155-156: if ((len = va_arg(ap, int)) < 0) msg_panic(...)
argv_addn_len ==
    /\ ac.pc = "L155"
    /\ ac' = [ac EXCEPT !.len = Head(ac.ap).i, !.ap = Tail(@),
                        !.pc = IF BadLength(Head(ac.ap).i)
                               THEN "panic" ELSE "L157"]
    /\ UNCHANGED << argvp, attr_state, flush_state >>

\* lines 157-158: if (ARGV_SPACE_LEFT(argvp) <= 0) argv_extend(argvp)
argv_addn_space ==
    /\ ac.pc = "L157"
    /\ argvp' = IF ARGV_SPACE_LEFT(argvp) <= 0
                THEN argv_extend(argvp) ELSE argvp
    /\ ac' = [ac EXCEPT !.pc = "L159"]
    /\ UNCHANGED << attr_state, flush_state >>

\* line 159: argvp->argv[argvp->argc++] = mystrndup(arg, len)
argv_addn_store ==
    /\ ac.pc = "L159"
    /\ argvp' = AppendSlot(argvp, mystrndup(ac.arg, ac.len))
    /\ ac' = [ac EXCEPT !.pc = "L154"]
    /\ UNCHANGED << attr_state, flush_state >>

\* line 162: argvp->argv[argvp->argc] = 0, and return
argv_addn_return ==
    /\ ac.pc = "L162"
    /\ argvp' = SetSlot(argvp, argvp.argc, NullPtr)
    /\ ac' = [ac EXCEPT !.pc = "idle"]
    /\ UNCHANGED << attr_state, flush_state >>

\* lines 167-174: argv_terminate(argvp)
argv_terminate ==
    /\ ac.pc = "idle"
    /\ argvp' = SetSlot(argvp, argvp.argc, NullPtr)
    /\ ac' = [ac EXCEPT !.fn = "argv_terminate", !.args = << >>,
                        !.ap = << >>, !.old = argvp]
    /\ UNCHANGED << attr_state, flush_state >>

InitArgv ==
    /\ th = [t \in { 1 } |-> Thread(<< >>)]
    /\ InitStreams
    /\ argvp = NoArgv
    /\ ac = NoArgvCall
    /\ fl = FlushClient("none")

NextArgv ==
    \/ argv_alloc
    \/ argv_add
    \/ argv_add_while
    \/ argv_add_space
    \/ argv_add_store
    \/ argv_add_return
    \/ argv_addn
    \/ argv_addn_while
    \/ argv_addn_len
    \/ argv_addn_space
    \/ argv_addn_store
    \/ argv_addn_return
    \/ argv_terminate

SpecArgv == InitArgv /\ [][NextArgv]_vars

(***************************************************************************)
(* The fast flush client of global/flush_clnt.c.  One process makes        *)
(* requests one after the other.  The flush server and the transport are   *)
(* the environment: mail_connect succeeds or fails, and mail_scan either   *)
(* converts the integer the server wrote or converts nothing (end of       *)
(* file, timeout, a reply that is no integer).  trace is what the call in  *)
(* progress has done to the outside so far, results the calls that have    *)
(* returned.                                                               *)
(***************************************************************************)
FLUSH_STAT_OK == 0
FLUSH_STAT_FAIL == -1
FLUSH_STAT_BAD == 3

FFLUSH_POLICY_NONE == "none"

\* the values of var_fflush_policy tried
Policies == { FFLUSH_POLICY_NONE, "dest", "all" }

\* the documented result codes
ResultCodes == { FLUSH_STAT_OK, FLUSH_STAT_FAIL, FLUSH_STAT_BAD }

\* the integers a server writes as its reply: the three codes and two others
ReplyValues == ResultCodes \cup { 7, -2 }

\* what mail_scan(flush, "%d", &status) does: n is its result, the number
\* of conversions made (-1 at end of file or timeout, 0 for a reply that
\* is no integer), v the integer it stored if it made the conversion
ScanOutcomes ==
    { [n |-> 1, v |-> x] : x \in ReplyValues }
    \cup { [n |-> 0, v |-> 0], [n |-> -1, v |-> 0] }

\* the results of mail_flush_deferred()
DeferredResults == { 0, -1 }

\* what the local variable status of flush_clnt holds before it is assigned
StackJunk == { FLUSH_STAT_OK, 7 }

\* PolicyOff that never finds the service turned off
PolicyOffNever(policy) == FALSE

\* lines 130, 154, 178: strcmp(var_fflush_policy, FFLUSH_POLICY_NONE) == 0
PolicyOff(policy) == policy = FFLUSH_POLICY_NONE

\* ScanStatus that keeps what status holds whatever mail_scan returned
ScanStatusKeep(n, status) == status

\* lines 106-107: if (mail_scan(...) != 1) status = FLUSH_STAT_FAIL
ScanStatus(n, status) == IF n # 1 THEN FLUSH_STAT_FAIL ELSE status

\* the call in progress does one more thing to the outside
Event(f, e) == [f EXCEPT !.trace = Append(@, e)]

\* a caller enters fn; the request is the format and its arguments
EnterFlush(fn, format, args) ==
    [fl EXCEPT !.fn = fn, !.req = << format >> \o args, !.trace = << >>,
               !.scanned = 0, !.reply = 0, !.deferred = 0, !.timeout = FALSE]

\* the service is turned off: the function has its status at once
Immediately(f, status) == [f EXCEPT !.ret = status, !.pc = "return"]

\* lines 119-133: flush_purge()
flush_purge ==
    /\ fl.pc = "idle"
    /\ Len(fl.results) < MaxRequests
    /\ LET f == EnterFlush("flush_purge", "%s", << "FLUSH_REQ_PURGE" >>)
       IN  fl' = IF PolicyOff(fl.var_fflush_policy)
                 THEN Immediately(f, FLUSH_STAT_OK)
                 ELSE [f EXCEPT !.pc = "L88"]
    /\ UNCHANGED << attr_state, argv_state >>

\* lines 143-157: flush_send(site)
flush_send ==
    /\ fl.pc = "idle"
    /\ Len(fl.results) < MaxRequests
    /\ LET f == EnterFlush("flush_send", "%s %s",
                           << "FLUSH_REQ_SEND", "site" >>)
       IN  IF PolicyOff(fl.var_fflush_policy)
           THEN \E r \in DeferredResults :
                    fl' = Immediately(Event([f EXCEPT !.deferred = r],
                                            "mail_flush_deferred"), r)
           ELSE fl' = [f EXCEPT !.pc = "L88"]
    /\ UNCHANGED << attr_state, argv_state >>

\* lines 167-181: flush_add(site, queue_id)
flush_add ==
    /\ fl.pc = "idle"
    /\ Len(fl.results) < MaxRequests
    /\ LET f == EnterFlush("flush_add", "%s %s %s",
                           << "FLUSH_REQ_ADD", "site", "queue_id" >>)
       IN  fl' = IF PolicyOff(fl.var_fflush_policy)
                 THEN Immediately(f, FLUSH_STAT_OK)
                 ELSE [f EXCEPT !.pc = "L88"]
    /\ UNCHANGED << attr_state, argv_state >>

\* lines 88-90: mail_connect(...), return FLUSH_STAT_FAIL if it fails;
\* the local variable status starts with whatever the stack holds
flush_clnt_connect ==
    /\ fl.pc = "L88"
    /\ \E ok \in BOOLEAN : \E junk \in StackJunk :
           fl' = IF ok
                 THEN [Event(fl, "connect") EXCEPT
                           !.open = TRUE, !.status = junk, !.pc = "L95"]
                 ELSE [Event(fl, "connect failed") EXCEPT
                           !.status = junk, !.ret = FLUSH_STAT_FAIL,
                           !.pc = "return"]
    /\ UNCHANGED << attr_state, argv_state >>

\* lines 95-97: vstream_control(flush, VSTREAM_CTL_TIMEOUT, var_ipc_timeout)
flush_clnt_timeout ==
    /\ fl.pc = "L95"
    /\ fl' = [Event(fl, "timeout") EXCEPT !.timeout = TRUE, !.pc = "L104"]
    /\ UNCHANGED << attr_state, argv_state >>

\* lines 103-105: mail_vprint(flush, format, ap)
flush_clnt_print ==
    /\ fl.pc = "L104"
    /\ fl' = [Event(fl, "write") EXCEPT !.pc = "L106"]
    /\ UNCHANGED << attr_state, argv_state >>

\* lines 106-107: mail_scan(flush, "%d", &status), FLUSH_STAT_FAIL unless
\* it made the one conversion
flush_clnt_scan ==
    /\ fl.pc = "L106"
    /\ \E o \in ScanOutcomes :
           fl' = [Event(fl, "read") EXCEPT
                      !.scanned = o.n,
                      !.reply = IF o.n = 1 THEN o.v ELSE fl.reply,
                      !.status = ScanStatus(o.n, IF o.n = 1 THEN o.v
                                                 ELSE fl.status),
                      !.pc = "L112"]
    /\ UNCHANGED << attr_state, argv_state >>

\* flush_clnt_close that leaves the stream open after a failed read
flush_clnt_close_on_success ==
    /\ fl.pc = "L112"
    /\ fl' = IF fl.scanned = 1
             THEN [Event(fl, "close") EXCEPT !.open = FALSE, !.pc = "L114"]
             ELSE [fl EXCEPT !.pc = "L114"]
    /\ UNCHANGED << attr_state, argv_state >>

\* line 112: vstream_fclose(flush)
flush_clnt_close ==
    /\ fl.pc = "L112"
    /\ fl' = [Event(fl, "close") EXCEPT !.open = FALSE, !.pc = "L114"]
    /\ UNCHANGED << attr_state, argv_state >>

\* line 114: return (status), and the caller's status = flush_clnt(...)
flush_clnt_return ==
    /\ fl.pc = "L114"
    /\ fl' = [fl EXCEPT !.ret = fl.status, !.pc = "return"]
    /\ UNCHANGED << attr_state, argv_state >>

\* lines 138, 162, 187: return (status)
flush_return ==
    /\ fl.pc = "return"
    /\ fl' = [fl EXCEPT
                  !.results = Append(@, [fn |-> fl.fn, req |-> fl.req,
                                         ret |-> fl.ret, trace |-> fl.trace,
                                         scanned |-> fl.scanned,
                                         reply |-> fl.reply,
                                         deferred |-> fl.deferred,
                                         open |-> fl.open,
                                         timeout |-> fl.timeout]),
                  !.pc = "idle"]
    /\ UNCHANGED << attr_state, argv_state >>

InitFlush ==
    /\ th = [t \in { 1 } |-> Thread(<< >>)]
    /\ InitStreams
    /\ argvp = NoArgv
    /\ ac = NoArgvCall
    /\ fl \in { FlushClient(policy) : policy \in Policies }

NextFlush ==
    \/ flush_purge
    \/ flush_send
    \/ flush_add
    \/ flush_clnt_connect
    \/ flush_clnt_timeout
    \/ flush_clnt_print
    \/ flush_clnt_scan
    \/ flush_clnt_close
    \/ flush_clnt_return
    \/ flush_return

SpecFlush == InitFlush /\ [][NextFlush]_vars

(***************************************************************************)
(* Observations the properties are stated with.                            *)
(***************************************************************************)
\* the bytes stream fp accepted during the returned call c
Seg(c) == SubSeq(out[c.fp], c.from + 1, c.upto)

\* the bytes the returned call c tried to write
AttSeg(c) == SubSeq(att[c.fp], c.afrom + 1, c.aupto)

\* the positions of the blank lines of bytes that start at a line start
BlankLines(bytes) ==
    { i \in 1..Len(bytes) : bytes[i] = NL /\ (i = 1 \/ bytes[i - 1] = NL) }

\* how often byte b occurs in bytes
Count(b, bytes) == Cardinality({ i \in 1..Len(bytes) : bytes[i] = b })

\* the flag word has the MORE bit
HasMore(flags) == (flags \div ATTR_FLAG_MORE) % 2 = 1

\* the returned calls
Returned == { calls[k] : k \in DOMAIN calls }

\* the argument list passes a table with no entries
RECURSIVE HasEmptyTable(_)
HasEmptyTable(ap) ==
    IF ap = << >> THEN FALSE
    ELSE IF Head(ap).i \in { ATTR_TYPE_NUM, ATTR_TYPE_STR }
    THEN HasEmptyTable(Drop(ap, 3))
    ELSE IF Head(ap).i = ATTR_TYPE_HASH
    THEN ap[2].h = << >> \/ HasEmptyTable(Drop(ap, 2))
    ELSE FALSE

(***************************************************************************)
(* C1.  A call with the MORE flag unset that returns without a write       *)
(* error has written exactly one blank line, and it is the last byte       *)
(* written: no blank line comes before the final attribute line.  Stated   *)
(* for every attribute list, a table with zero entries included.           *)
(***************************************************************************)
C1_OneTerminatorLast ==
    \A c \in Returned :
        (c.ret = 0 /\ ~HasMore(c.flags) /\ c.from = 0)
            => BlankLines(Seg(c)) = { Len(Seg(c)) }

\* the same statement for the lists that pass no table with zero entries
C1_HoldsWithoutEmptyTable ==
    \A c \in Returned :
        (c.ret = 0 /\ ~HasMore(c.flags) /\ c.from = 0
            /\ ~HasEmptyTable(c.args))
            => BlankLines(Seg(c)) = { Len(Seg(c)) }

(***************************************************************************)
(* C2.  Sending Table(T) writes the same bytes as sending one Str(key,     *)
(* value) entry per pair of T in the table's iteration order, for a table  *)
(* of any size: two returned calls with the same flags, the second one's   *)
(* argument list being the first one's with its tables expanded, have      *)
(* written the same bytes.                                                 *)
(***************************************************************************)
C2_TableAsStrs ==
    \A c \in Returned : \A d \in Returned :
        (c.ret = 0 /\ d.ret = 0 /\ c.flags = d.flags
            /\ d.args # c.args /\ d.args = ExpandTables(c.args))
            => Seg(c) = Seg(d)

\* the same statement for the lists that pass no table with zero entries
C2_HoldsWithoutEmptyTable ==
    \A c \in Returned : \A d \in Returned :
        (c.ret = 0 /\ d.ret = 0 /\ c.flags = d.flags
            /\ d.args # c.args /\ d.args = ExpandTables(c.args)
            /\ ~HasEmptyTable(c.args))
            => Seg(c) = Seg(d)

(***************************************************************************)
(* The reading side of one line (attr_scan): the line being written is     *)
(* what follows the last line end of the stream; its value token is what   *)
(* follows its first separator.                                            *)
(***************************************************************************)
\* the bytes after the last line end of bytes
RECURSIVE LastLine(_)
LastLine(bytes) ==
    IF bytes = << >> \/ bytes[Len(bytes)] = NL THEN << >>
    ELSE Append(LastLine(Take(bytes, Len(bytes) - 1)), bytes[Len(bytes)])

\* the bytes after the first separator of line (the whole line if none)
RECURSIVE ValueToken(_)
ValueToken(line) ==
    IF line = << >> THEN << >>
    ELSE IF Head(line) = COLON THEN Tail(line)
    ELSE ValueToken(Tail(line))

\* the bytes are decimal digits, at least one
IsDigits(bytes) ==
    bytes # << >> /\ \A i \in 1..Len(bytes) : bytes[i] \in 48..57

\* the unsigned value of a string of decimal digits, as limbs (strtoul)
RECURSIVE ParseUnsigned(_)
ParseUnsigned(digits) ==
    IF digits = << >> THEN << 0, 0 >>
    ELSE LET u == ParseUnsigned(Take(digits, Len(digits) - 1))
             lo == u[2] * 10 + (digits[Len(digits)] - 48)
         IN  << u[1] * 10 + lo \div LIMB, lo % LIMB >>

\* thread t has just sent the value of an attribute of the given type and
\* no write of the call has failed
ValueSent(t, type) ==
    /\ th[t].pc = "L177"
    /\ th[t].attr_type = type
    /\ ~ferr[th[t].fp]

\* the value token of the line thread t is writing, base64-decoded
DecodedValue(t) == base64_decode(ValueToken(LastLine(out[th[t].fp])))

\* the argument attr_vprint has read last
LastArg(t) == th[t].args[Len(th[t].args) - Len(th[t].ap)]

(***************************************************************************)
(* C3.  For any byte string v passed as the value of a Str attribute,      *)
(* also one that holds newline, colon or NUL bytes, the value token on     *)
(* the wire is the base64 encoding of all of v: decoding the token yields  *)
(* exactly v.                                                              *)
(***************************************************************************)
C3_TokenDecodesToAllOfValue ==
    \A t \in DOMAIN th :
        ValueSent(t, ATTR_TYPE_STR) => DecodedValue(t) = LastArg(t).s

(***************************************************************************)
(* C3, amended.  The value token is the base64 encoding of v up to its     *)
(* first NUL byte: decoding it yields exactly v when v holds no NUL byte   *)
(* (newline and colon bytes included), and the bytes of v before the       *)
(* first NUL otherwise.                                                    *)
(***************************************************************************)
C3_TokenDecodesToCString ==
    \A t \in DOMAIN th :
        ValueSent(t, ATTR_TYPE_STR) =>
            LET v == LastArg(t).s
            IN  /\ (\A i \in 1..Len(v) : v[i] # NUL) => DecodedValue(t) = v
                /\ \A n \in 1..Len(v) :
                       (v[n] = NUL /\ \A i \in 1..(n - 1) : v[i] # NUL)
                           => DecodedValue(t) = SubSeq(v, 1, n - 1)

\* a value of the greatest length tried, with a newline and a colon and no
\* NUL, has been sent and read back
C3_Witness ==
    \E t \in DOMAIN th :
        /\ ValueSent(t, ATTR_TYPE_STR)
        /\ Len(LastArg(t).s) = MaxStrLen
        /\ \E i, j \in 1..MaxStrLen :
               LastArg(t).s[i] = NL /\ LastArg(t).s[j] = COLON
        /\ \A i \in 1..MaxStrLen : LastArg(t).s[i] # NUL
        /\ DecodedValue(t) = LastArg(t).s

(***************************************************************************)
(* The wire format of section 6 for a list of Num and Str entries: one     *)
(* line base64(name) ':' base64(value) '\n' per entry, in argument order.  *)
(* A name or a Str value is the null-terminated string the argument        *)
(* points to; the value of a Num entry is its decimal text.                *)
(***************************************************************************)
CString(s) == Take(s, strlen(s))

WireLine(name, value) ==
    base64_encode(name) \o << COLON >> \o base64_encode(value) \o << NL >>

\* the lines of the entries of an argument list of Num and Str entries
RECURSIVE WireLines(_)
WireLines(ap) ==
    IF ap = << >> \/ Head(ap).i \notin { ATTR_TYPE_NUM, ATTR_TYPE_STR }
    THEN << >>
    ELSE << WireLine(CString(ap[2].s),
                     IF Head(ap).i = ATTR_TYPE_NUM
                     THEN FormatUnsigned(ToUnsigned(ap[3].i))
                     ELSE CString(ap[3].s)) >>
         \o WireLines(Drop(ap, 3))

\* every entry of the argument list is a Num or a Str entry
RECURSIVE AllScalar(_)
AllScalar(ap) ==
    IF ap = << >> THEN FALSE
    ELSE IF Head(ap).i = ATTR_TYPE_END THEN TRUE
    ELSE IF Head(ap).i \in { ATTR_TYPE_NUM, ATTR_TYPE_STR }
    THEN AllScalar(Drop(ap, 3))
    ELSE FALSE

\* the bytes of a returned call before its terminator
BeforeTerminator(c) ==
    IF HasMore(c.flags) THEN Seg(c) ELSE Take(Seg(c), Len(Seg(c)) - 1)

(***************************************************************************)
(* C4.  For a call whose entries are all Num or Str, the bytes written     *)
(* before the terminator are the concatenation, in the caller's argument   *)
(* order, of exactly one line base64(name) ':' base64(value) '\n' per      *)
(* entry; every such line holds exactly one ':' and no entry is dropped,   *)
(* duplicated or reordered.                                                *)
(***************************************************************************)
C4_OneLinePerScalarInOrder ==
    \A c \in Returned :
        (c.ret = 0 /\ AllScalar(c.args)) =>
            /\ BeforeTerminator(c) = Flatten(WireLines(c.args))
            /\ \A i \in 1..Len(WireLines(c.args)) :
                   Count(COLON, WireLines(c.args)[i]) = 1
            /\ Count(COLON, BeforeTerminator(c)) * 3 = Len(c.args) - 1
            /\ Count(NL, BeforeTerminator(c)) * 3 = Len(c.args) - 1

\* a call has returned that sent a Num entry and then a Str entry whose
\* name and value hold a colon and a newline
C4_Witness ==
    \E c \in Returned :
        /\ c.ret = 0 /\ AllScalar(c.args) /\ Len(c.args) = 7
        /\ c.args[1].i = ATTR_TYPE_NUM /\ c.args[4].i = ATTR_TYPE_STR
        /\ Count(COLON, c.args[5].s) = 1 /\ Count(NL, c.args[6].s) = 1
        /\ BeforeTerminator(c) = Flatten(WireLines(c.args))

(***************************************************************************)
(* C5.  With the MORE flag set a call writes no blank line at all, for     *)
(* any attribute list, lists with tables of any size included: what it     *)
(* wrote ends with the line end of its last attribute line.                *)
(***************************************************************************)
C5_MoreWritesNoBlankLine ==
    \A c \in Returned :
        (c.ret = 0 /\ HasMore(c.flags) /\ c.from = 0) =>
            /\ BlankLines(Seg(c)) = { }
            /\ Seg(c) # << >> => Seg(c)[Len(Seg(c))] = NL

\* the same statement for the lists that pass no table with zero entries
C5_HoldsWithoutEmptyTable ==
    \A c \in Returned :
        (c.ret = 0 /\ HasMore(c.flags) /\ c.from = 0
            /\ ~HasEmptyTable(c.args)) =>
            /\ BlankLines(Seg(c)) = { }
            /\ Seg(c) # << >> => Seg(c)[Len(Seg(c))] = NL

(***************************************************************************)
(* C6.  For all attribute lists A and B, a call with MORE sending A        *)
(* followed by a call with no flag sending B writes exactly the bytes of   *)
(* the single call with no flag that sends A followed by B.                *)
(***************************************************************************)
\* the argument list of a followed by the argument list of b
JoinArgs(a, b) == Take(a, Len(a) - 1) \o b

C6_MoreThenNoneIsOneCall ==
    \A i \in DOMAIN calls : \A k \in DOMAIN calls :
        (/\ i + 1 \in DOMAIN calls
         /\ calls[i].flags = ATTR_FLAG_MORE
         /\ calls[i + 1].flags = ATTR_FLAG_NONE
         /\ calls[i + 1].fp = calls[i].fp
         /\ calls[i + 1].from = calls[i].upto
         /\ calls[k].flags = ATTR_FLAG_NONE
         /\ calls[k].fp # calls[i].fp
         /\ calls[k].args = JoinArgs(calls[i].args, calls[i + 1].args)
         /\ calls[i].ret = 0 /\ calls[i + 1].ret = 0 /\ calls[k].ret = 0)
            => SubSeq(out[calls[i].fp], calls[i].from + 1, calls[i + 1].upto)
                   = Seg(calls[k])

\* A (a table of two pairs) went out with MORE, B (a Num entry) after it,
\* and A followed by B on the other stream
C6_Witness ==
    /\ Len(calls) = 3
    /\ calls[1].flags = ATTR_FLAG_MORE /\ calls[2].flags = ATTR_FLAG_NONE
    /\ calls[3].flags = ATTR_FLAG_NONE
    /\ calls[1].fp = 1 /\ calls[2].fp = 1 /\ calls[3].fp = 2
    /\ calls[1].args = ArgList(<< HashEntry(TableUp(2)) >>)
    /\ calls[2].args = ArgList(<< NumEntry(<< 110 >>, 4711) >>)
    /\ calls[3].args = JoinArgs(calls[1].args, calls[2].args)
    /\ out[1] = out[2]
    /\ Count(COLON, out[2]) = 3

(***************************************************************************)
(* C7.  For every int n passed as a Num attribute, negative values         *)
(* included, the value token is the base64 encoding of unsigned decimal    *)
(* digits (no sign), and reading those digits as an unsigned decimal       *)
(* yields exactly n.                                                       *)
(***************************************************************************)
C7_NumReadsBackAsPassed ==
    \A t \in DOMAIN th :
        ValueSent(t, ATTR_TYPE_NUM) =>
            LET n == LastArg(t).i
            IN  /\ IsDigits(DecodedValue(t))
                /\ n >= 0
                /\ ParseUnsigned(DecodedValue(t)) = << n \div LIMB, n % LIMB >>

(***************************************************************************)
(* C7, amended.  The value token is the base64 encoding of unsigned        *)
(* decimal digits (no sign); reading them as an unsigned decimal yields n  *)
(* for every n from 0 to INT_MAX, and n + 2^32 for a negative n.           *)
(***************************************************************************)
C7_NumReadsBackModulo ==
    \A t \in DOMAIN th :
        ValueSent(t, ATTR_TYPE_NUM) =>
            LET n == LastArg(t).i
                u == ParseUnsigned(DecodedValue(t))
            IN  /\ IsDigits(DecodedValue(t))
                /\ n >= 0 => u = << n \div LIMB, n % LIMB >>
                /\ n < 0 => u = << (LIMB - 1) - ((-(n + 1)) \div LIMB),
                                   (LIMB - 1) - ((-(n + 1)) % LIMB) >>

\* -1 has been sent and went out as the ten digits of 2^32 - 1
C7_Witness ==
    \E t \in DOMAIN th :
        /\ ValueSent(t, ATTR_TYPE_NUM)
        /\ LastArg(t).i = -1
        /\ IsDigits(DecodedValue(t))
        /\ Len(DecodedValue(t)) = 10
        /\ ParseUnsigned(DecodedValue(t)) = << 65535, 65535 >>

(***************************************************************************)
(* C8.  A call whose flags hold a bit outside the defined flag set aborts  *)
(* the process at once: before any attribute is read and before any byte   *)
(* is written to the stream, and the call never returns a status.          *)
(***************************************************************************)
\* the flag word has a bit outside ATTR_FLAG_ALL
UndefinedBit(flags) == flags \div (ATTR_FLAG_ALL + 1) # 0

C8_BadFlagsAbortFirst ==
    /\ \A t \in DOMAIN th :
           (th[t].pc # "idle" /\ UndefinedBit(th[t].flags)) =>
               /\ th[t].pc \in { "L133", "panic" }
               /\ th[t].ap = th[t].args
               /\ Len(out[th[t].fp]) = th[t].from
               /\ Len(att[th[t].fp]) = th[t].afrom
    /\ \A c \in Returned : ~UndefinedBit(c.flags)

\* a call with MORE and an undefined bit, and attributes to send, aborted
C8_Witness ==
    \E t \in DOMAIN th :
        /\ th[t].pc = "panic"
        /\ th[t].flags = ATTR_FLAG_ALL + 1 + ATTR_FLAG_MORE
        /\ Len(th[t].args) > 3
        /\ th[t].ap = th[t].args
        /\ att[th[t].fp] = << >>

(***************************************************************************)
(* C9.  A call that meets a type tag other than NUM, STR, HASH or END      *)
(* aborts the process at that entry instead of returning: the step that    *)
(* reads the tag ends in the abort and writes nothing, and after the       *)
(* abort nothing is written and no call returns, so no line goes out for   *)
(* the unknown entry or for a later one, and no terminator.                *)
(***************************************************************************)
KnownTypes ==
    { ATTR_TYPE_END, ATTR_TYPE_NUM, ATTR_TYPE_STR, ATTR_TYPE_HASH }

C9_UnknownTypeAborts ==
    [][\A t \in DOMAIN th :
           /\ (th[t].pc = "L140" /\ Head(th[t].ap).i \notin KnownTypes
                   /\ th'[t] # th[t])
                  => /\ th'[t].pc = "panic"
                     /\ th'[t].ap = Tail(th[t].ap)
                     /\ UNCHANGED << out, att, calls >>
           /\ th[t].pc = "panic" => UNCHANGED << th, out, att, calls >>]_vars

\* the abort came at the second entry, after the line of the first one,
\* with arguments of the unknown entry still unread
C9_Witness ==
    \E t \in DOMAIN th :
        /\ th[t].pc = "panic"
        /\ ~UndefinedBit(th[t].flags)
        /\ th[t].attr_type \notin KnownTypes
        /\ th[t].ap # << >>
        /\ Count(COLON, out[th[t].fp]) = 1
        /\ Count(NL, out[th[t].fp]) = 1
        /\ calls = << >>

(***************************************************************************)
(* C10.  A write failure does not stop the call: every remaining entry,    *)
(* and the terminator if MORE is unset, is still attempted, nothing is     *)
(* retried or rolled back, and the call returns 0 if and only if no write  *)
(* error has been recorded on the stream, non-zero otherwise.              *)
(***************************************************************************)
\* the number of name/value pairs an argument list sends
RECURSIVE Pairs(_)
Pairs(ap) ==
    IF ap = << >> THEN 0
    ELSE IF Head(ap).i \in { ATTR_TYPE_NUM, ATTR_TYPE_STR }
    THEN 1 + Pairs(Drop(ap, 3))
    ELSE IF Head(ap).i = ATTR_TYPE_HASH
    THEN Len(ap[2].h) + Pairs(Drop(ap, 2))
    ELSE 0

\* a is a prefix of b
IsPrefix(a, b) == Len(a) <= Len(b) /\ a = SubSeq(b, 1, Len(a))

C10_AllAttempted ==
    \A c \in Returned :
        /\ c.ret = 0 <=> ~ferr[c.fp]
        /\ c.ret = 0 <=> Seg(c) = AttSeg(c)
        /\ Count(COLON, AttSeg(c)) = Pairs(c.args)
        /\ ~HasMore(c.flags) =>
               /\ AttSeg(c) # << >>
               /\ AttSeg(c)[Len(AttSeg(c))] = NL
               /\ Pairs(c.args) > 0 => AttSeg(c)[Len(AttSeg(c)) - 1] = NL
        /\ IsPrefix(Seg(c), AttSeg(c))

C10_NoRollback ==
    \A s \in Streams :
        /\ IsPrefix(out[s], out'[s])
        /\ IsPrefix(att[s], att'[s])
        /\ ferr[s] => ferr'[s]

C10_WriteFailureDoesNotStop == [](C10_AllAttempted) /\ [][C10_NoRollback]_vars

\* the transport failed after the first of three pairs went out, the call
\* went on to attempt all three and the terminator, and returned non-zero
C10_Witness ==
    \E c \in Returned :
        /\ c.ret # 0
        /\ ~HasMore(c.flags)
        /\ Pairs(c.args) = 3
        /\ Count(COLON, Seg(c)) = 1
        /\ Count(COLON, AttSeg(c)) = 3
        /\ Len(Seg(c)) < Len(AttSeg(c))

(***************************************************************************)
(* C11.  When two threads run encode calls on two different streams and    *)
(* their steps interleave in any order, each stream receives exactly the   *)
(* bytes it would receive if its call ran alone (one line per pair sent,   *)
(* then the terminator), and no call writes from a buffer that holds what  *)
(* a call on the other stream put there.                                   *)
(***************************************************************************)
\* the bytes a call with no flag writes when it runs alone (C2, C4)
AloneBytes(c) == Flatten(WireLines(ExpandTables(c.args))) \o << NL >>

\* the static buffer thread t is about to write from holds the encoding of
\* the string t passed to attr_print_str
OwnBuffer(t) ==
    th[t].pc = "L104" =>
        base64_buf = base64_encode(Take(IF th[t].str.plain
                                        THEN FormatUnsigned(th[t].num)
                                        ELSE th[t].str.s, th[t].len))

C11_StreamsDoNotInterfere ==
    /\ \A c \in Returned :
           (c.ret = 0 /\ c.flags = ATTR_FLAG_NONE /\ c.from = 0
               /\ ~HasEmptyTable(c.args))
               => Seg(c) = AloneBytes(c)
    /\ \A t \in DOMAIN th : OwnBuffer(t)

(***************************************************************************)
(* C12.  After argv_alloc and after every return of argv_add, argv_addn    *)
(* or argv_terminate, in any sequence, the array is null terminated:       *)
(* argv[argc] is the null pointer and every slot at index 0..argc-1 holds  *)
(* a string (a pointer that is not null).                                  *)
(***************************************************************************)
C12_NullTerminated ==
    ac.pc = "idle" =>
        /\ argvp.argc + 1 <= Len(argvp.argv)
        /\ argvp.argv[argvp.argc + 1] = NullPtr
        /\ \A i \in 1..argvp.argc : argvp.argv[i].k = "str"

\* argv_add has returned after an extension, with the terminator in a slot
\* that the extension added
C12_Witness ==
    /\ ac.pc = "idle" /\ ac.fn = "argv_add"
    /\ argvp.argc = MaxArgc
    /\ argvp.argc + 1 > Len(ac.old.argv)
    /\ argvp.argv[argvp.argc + 1] = NullPtr

(***************************************************************************)
(* C13.  argv_add(a, s1, ..., sk, END) increases argc by exactly k,        *)
(* stores copies of s1..sk at the indices old_argc..old_argc+k-1 in the    *)
(* order given, duplicates kept, and leaves every element at an index      *)
(* below old_argc as it was, at every step of the call and also when the   *)
(* call extends the array once or more; with zero strings it changes       *)
(* neither argc nor any element.                                           *)
(***************************************************************************)
C13_AddAppendsInOrder ==
    ac.fn = "argv_add" =>
        LET k == Strings(ac.args)
            old == ac.old
        IN  /\ \A i \in 1..old.argc :
                   i <= Len(argvp.argv) /\ argvp.argv[i] = old.argv[i]
            /\ ac.pc = "idle" =>
                   /\ argvp.argc = old.argc + k
                   /\ \A i \in 1..k :
                          argvp.argv[old.argc + i] = StrPtr(ac.args[i].s)
                   /\ k = 0 => argvp = old

\* one call appended three strings, two of them the same, to an array of
\* one string, and extended the array twice
C13_Witness ==
    /\ ac.pc = "idle" /\ ac.fn = "argv_add"
    /\ Strings(ac.args) = 3 /\ ac.args[1] = ac.args[2]
    /\ ac.old.argc = 1 /\ ac.old.len = 2
    /\ argvp.len = 8 /\ argvp.argc = 4
    /\ argvp.argv[1] = ac.old.argv[1]

(***************************************************************************)
(* C16.  In every state reachable by argv_alloc followed by any sequence   *)
(* of argv_add and argv_addn calls, between two strings appended by the    *)
(* same call included, argc < len holds and no write has gone outside the  *)
(* len + 1 allocated slots; after the test of the space left, extended or  *)
(* not, there is room for the next string and the terminator.              *)
(***************************************************************************)
C16_ArgcBelowLen ==
    ac.pc # "none" =>
        /\ argvp.argc < argvp.len
        /\ Len(argvp.argv) = argvp.len + 1
        /\ ~argvp.overrun
        /\ ac.pc \in { "L136", "L159" } => argvp.argc + 1 < argvp.len

\* argv_addn is between its second and its third string, about to store
\* the third in an array it has just extended a second time
C16_Witness ==
    /\ ac.pc = "L159" /\ ac.fn = "argv_addn"
    /\ ac.old.len = 2 /\ ac.old.argc = 1
    /\ argvp.argc = 3 /\ argvp.len = 8

(***************************************************************************)
(* C17.  The capacity len is max(2, requested length) after argv_alloc     *)
(* and afterwards changes only by doubling, and only at an append that     *)
(* finds the array full (argc = len - 1): len never shrinks, an append     *)
(* that finds free space leaves len as it is, and one that finds the       *)
(* array full doubles it.                                                  *)
(***************************************************************************)
\* the step is the test of the space left of an append
AtSpaceTest == ac.pc \in { "L134", "L157" } /\ ac'.pc # ac.pc

C17_LenOnlyDoubles ==
    [][/\ (ac.pc = "none" /\ ac'.pc # "none") =>
              /\ argvp'.len >= 2
              /\ argvp'.len >= ac'.asked
              /\ argvp'.len \in { 2, ac'.asked }
       /\ ac.pc # "none" =>
              \/ argvp'.len = argvp.len
              \/ /\ argvp'.len = argvp.len + argvp.len
                 /\ argvp.argc = argvp.len - 1
                 /\ AtSpaceTest
       /\ (AtSpaceTest /\ argvp.argc < argvp.len - 1) =>
              argvp'.len = argvp.len
       /\ (AtSpaceTest /\ argvp.argc = argvp.len - 1) =>
              argvp'.len = argvp.len + argvp.len]_vars

\* an array asked for with length 1 got length 2 and has doubled twice
C17_Witness ==
    /\ ac.pc # "none" /\ ac.asked = 1
    /\ argvp.len = 8
    /\ argvp.argc = MaxArgc

(***************************************************************************)
(* C18.  argv_addn aborts the process when a (string, length) pair it      *)
(* reads has a negative length: the step that reads the length ends in     *)
(* the abort and stores nothing, the strings of the pairs before it have   *)
(* been appended and the string of that pair and of every later pair is    *)
(* not, and after the abort nothing changes: the call does not return.     *)
(***************************************************************************)
\* the number of arguments the call in progress has read
ArgsRead == Len(ac.args) - Len(ac.ap)

C18_AbortedAtBadPair ==
    ac.pc = "panic" =>
        /\ ac.fn = "argv_addn"
        /\ ac.args[ArgsRead].i < 0
        /\ argvp.argc * 2 = ac.old.argc * 2 + (ArgsRead - 2)
        /\ \A i \in 1..Len(argvp.argv) :
               i > argvp.argc => argvp.argv[i].k # "str"

C18_BadLengthStep ==
    /\ (ac.pc = "L155" /\ Head(ac.ap).i < 0 /\ ac' # ac) =>
           ac'.pc = "panic" /\ argvp' = argvp
    /\ ac.pc = "panic" => UNCHANGED << argvp, ac >>

C18_NegativeLengthAborts ==
    [](C18_AbortedAtBadPair) /\ [][C18_BadLengthStep]_vars

\* the third pair of a call had a negative length: the call aborted there
\* with the strings of the first two pairs appended
C18_Witness ==
    /\ ac.pc = "panic"
    /\ ArgsRead = 6 /\ Len(ac.ap) = 1
    /\ argvp.argc = ac.old.argc + 2
    /\ argvp.argv[argvp.argc] = StrPtr(<< 99 >>)

(***************************************************************************)
(* Observations of the flush client.                                       *)
(***************************************************************************)
\* the requests that have returned
FlushResults == { fl.results[k] : k \in DOMAIN fl.results }

\* the requests that have returned and the one in progress
FlushCalls == FlushResults \cup { fl }

\* how often the call's trace holds one of the events es
Events(r, es) == Cardinality({ i \in DOMAIN r.trace : r.trace[i] \in es })

\* the call tried to connect to the flush server
ToServer(r) == Events(r, { "connect", "connect failed" }) > 0

(***************************************************************************)
(* C14.  Every value returned by flush_add, flush_send and flush_purge     *)
(* issued against the fast flush service is one of the three documented    *)
(* result codes MAIL_FLUSH_OK, MAIL_FLUSH_FAIL or MAIL_FLUSH_BAD,          *)
(* whatever the server writes back as its reply.                           *)
(***************************************************************************)
C14_ResultIsDocumentedCode ==
    \A r \in FlushResults : ToServer(r) => r.ret \in ResultCodes

\* the same statement for the replies that are one of the three codes
C14_HoldsForDocumentedReplies ==
    \A r \in FlushResults :
        (ToServer(r) /\ (r.scanned = 1 => r.reply \in ResultCodes))
            => r.ret \in ResultCodes

(***************************************************************************)
(* C15.  A request through flush_clnt that succeeds in connecting does     *)
(* its steps in this order: connect, apply the I/O timeout, write one      *)
(* request, read one integer status, close.  The timeout is set before     *)
(* the request is written, and the connection is closed exactly once       *)
(* before the call returns, whether the status read succeeded or failed.   *)
(***************************************************************************)
RequestSteps == << "connect", "timeout", "write", "read", "close" >>

C15_RequestStepsInOrder ==
    /\ \A r \in FlushCalls :
           Events(r, { "connect" }) > 0 =>
               /\ IsPrefix(r.trace, RequestSteps)
               /\ Events(r, { "write" }) > 0 => r.timeout
               /\ r.open <=> Events(r, { "close" }) = 0
    /\ \A r \in FlushResults :
           Events(r, { "connect" }) > 0 =>
               /\ r.trace = RequestSteps
               /\ Events(r, { "close" }) = 1
               /\ ~r.open
    /\ (fl.pc = "return" /\ Events(fl, { "connect" }) > 0) =>
           fl.trace = RequestSteps /\ ~fl.open

\* one request whose reply was read and one whose reply was not have
\* returned, both after all five steps
C15_Witness ==
    \E r, q \in FlushResults :
        /\ r.scanned = 1 /\ r.trace = RequestSteps /\ ~r.open
        /\ q.scanned = -1 /\ q.trace = RequestSteps /\ ~q.open

(***************************************************************************)
(* C19.  A flush client request never retries and reports failure as a     *)
(* status value: if the connection cannot be opened the result is FAIL     *)
(* and no request is written; if the reply cannot be read as exactly one   *)
(* integer (end of file, timeout, malformed reply) the result is FAIL;     *)
(* each request call makes at most one connection attempt.                 *)
(***************************************************************************)
C19_FailureIsStatusNoRetry ==
    /\ \A r \in FlushCalls :
           /\ Events(r, { "connect", "connect failed" }) <= 1
           /\ Events(r, { "write" }) <= 1
           /\ Events(r, { "read" }) <= 1
           /\ Events(r, { "connect failed" }) > 0 =>
                  r.trace = << "connect failed" >>
    /\ \A r \in FlushResults :
           /\ Events(r, { "connect failed" }) > 0 => r.ret = FLUSH_STAT_FAIL
           /\ (Events(r, { "read" }) > 0 /\ r.scanned # 1) =>
                  r.ret = FLUSH_STAT_FAIL

\* one request that could not connect and one whose reply was no integer
\* have returned FAIL
C19_Witness ==
    \E r, q \in FlushResults :
        /\ r.trace = << "connect failed" >> /\ r.ret = FLUSH_STAT_FAIL
        /\ q.trace = RequestSteps /\ q.scanned = 0
        /\ q.ret = FLUSH_STAT_FAIL

(***************************************************************************)
(* C20.  When the fast flush policy is "none" (service turned off),        *)
(* flush_add, flush_send and flush_purge never open a connection to the    *)
(* flush server: flush_add and flush_purge return OK at once, and          *)
(* flush_send returns the result of the deferred mail flush.               *)
(***************************************************************************)
C20_PolicyNoneNeverConnects ==
    fl.var_fflush_policy = FFLUSH_POLICY_NONE =>
        /\ \A r \in FlushCalls : ~ToServer(r) /\ ~r.open
        /\ \A r \in FlushResults :
               /\ r.fn \in { "flush_add", "flush_purge" } =>
                      r.ret = FLUSH_STAT_OK /\ r.trace = << >>
               /\ r.fn = "flush_send" =>
                      /\ r.trace = << "mail_flush_deferred" >>
                      /\ r.ret = r.deferred

\* with the service turned off, flush_send has returned the failure of the
\* deferred mail flush and flush_add has returned OK
C20_Witness ==
    /\ fl.var_fflush_policy = FFLUSH_POLICY_NONE
    /\ \E r, q \in FlushResults :
           /\ r.fn = "flush_send" /\ r.ret = -1 /\ r.deferred = -1
           /\ q.fn = "flush_add" /\ q.ret = FLUSH_STAT_OK

=============================================================================
